---- MODULE Spec2Model ----
(***************************************************************************)
(* Model of the broadcast scraper: the production pipeline                 *)
(* (scraper.main -> vrt.run_scraper_and_get_data -> vrt.BroadcastScraper)  *)
(* and the stand-alone pipeline (api.main -> api.BroadcastScraper).        *)
(*                                                                         *)
(* Python dicts are functions whose DOMAIN is the set of keys present, so  *)
(* "key absent" and "key present with an empty list" are different values. *)
(* A list of dicts is a sequence; the worker threads mutate the dicts of   *)
(* today_fixtures in place and the result lists hold references to them,   *)
(* so result lists are sequences of positions into today_fixtures.         *)
(***************************************************************************)
EXTENDS Integers, Sequences, FiniteSets, TLC

\* ---------------------------------------------------------------- bounds
\* Largest number of table blocks on a listing page.
MaxBlocks == 3
\* Size of the worker pool (the max_workers argument of the constructor).
MaxWorkers == 2
\* Largest number of table blocks in the body of an error response.
MaxErrorBlocks == 1

\* ------------------------------------------------------- dict primitives
EmptyDict == <<>>

\* d[k] = v
Put(d, k, v) == (k :> v) @@ d

\* d.get(k, default): the default is used only when the key is absent.
Get(d, k, default) == IF k \in DOMAIN d THEN d[k] ELSE default

Has(d, k) == k \in DOMAIN d

\* ------------------------------------------------------------ the clock
\* datetime.now(): the day the run happens on.
TodayDay == 6
TodayMonth == 11
ThisYear == 2026

\* ---------------------------------------------------------- text
\* A text whose characters matter is a tuple of one-character strings.
Upper == <<"A","B","C","D","E","F","G","H","I","J","K","L","M","N","O","P","Q","R","S","T","U","V","W","X","Y","Z">>
Lower == <<"a","b","c","d","e","f","g","h","i","j","k","l","m","n","o","p","q","r","s","t","u","v","w","x","y","z">>

\* str.lower() of one character
LowerChar(c) ==
    IF \E k \in 1..Len(Upper) : Upper[k] = c
    THEN Lower[CHOOSE k \in 1..Len(Upper) : Upper[k] = c]
    ELSE c

\* str.lower()
ToLower(text) == [k \in 1..Len(text) |-> LowerChar(text[k])]

\* needle in text
Contains(text, needle) ==
    \E k \in 0..(Len(text) - Len(needle)) :
        \A m \in 1..Len(needle) : text[k + m] = needle[m]

RECURSIVE StripLeft(_)
StripLeft(text) ==
    IF text # <<>> /\ Head(text) \in {"(", ")"} THEN StripLeft(Tail(text)) ELSE text

RECURSIVE StripRight(_)
StripRight(text) ==
    IF text # <<>> /\ text[Len(text)] \in {"(", ")"}
    THEN StripRight(SubSeq(text, 1, Len(text) - 1)) ELSE text

\* text.strip('()')
StripParens(text) == StripRight(StripLeft(text))

RECURSIVE RunLen(_, _, _, _, _, _)
\* The length of the common run of a from i and b from j that stays
\* within a[..ahi] and b[..bhi].
RunLen(a, b, i, j, ahi, bhi) ==
    IF i <= ahi /\ j <= bhi /\ a[i] = b[j]
    THEN 1 + RunLen(a, b, i + 1, j + 1, ahi, bhi)
    ELSE 0

\* SequenceMatcher.find_longest_match(alo, ahi, blo, bhi) without junk:
\* the longest common block, the earliest in a and, among those, the
\* earliest in b.
FindLongestMatch(a, b, alo, ahi, blo, bhi) ==
    LET W == (alo..ahi) \X (blo..bhi)
        best == CHOOSE w \in W : \A v \in W :
                    \/ RunLen(a, b, w[1], w[2], ahi, bhi) > RunLen(a, b, v[1], v[2], ahi, bhi)
                    \/ /\ RunLen(a, b, w[1], w[2], ahi, bhi) = RunLen(a, b, v[1], v[2], ahi, bhi)
                       /\ (w[1] < v[1] \/ (w[1] = v[1] /\ w[2] <= v[2]))
    IN  [i |-> best[1], j |-> best[2], k |-> RunLen(a, b, best[1], best[2], ahi, bhi)]

RECURSIVE MatchedChars(_, _, _, _, _, _)
\* The sum of the sizes of SequenceMatcher.get_matching_blocks().
MatchedChars(a, b, alo, ahi, blo, bhi) ==
    IF alo > ahi \/ blo > bhi THEN 0
    ELSE LET m == FindLongestMatch(a, b, alo, ahi, blo, bhi)
         IN  IF m.k = 0 THEN 0
             ELSE m.k + MatchedChars(a, b, alo, m.i - 1, blo, m.j - 1)
                      + MatchedChars(a, b, m.i + m.k, ahi, m.j + m.k, bhi)

\* SequenceMatcher(None, a, b).ratio() > 0.8, the ratio being 2*M/T.
RatioAbove80(a, b) ==
    Len(a) + Len(b) > 0
    /\ 5 * MatchedChars(a, b, 1, Len(a), 1, Len(b)) > 2 * (Len(a) + Len(b))

\* -------------------------------------------------- league priority
KJ_ORDER ==
    << <<"P", "r", "e", "m", "i", "e", "r", " ", "L", "e", "a", "g", "u", "e">>,
       <<"L", "a", "L", "i", "g", "a">>,
       <<"B", "u", "n", "d", "e", "s", "l", "i", "g", "a">>,
       <<"S", "e", "r", "i", "e", " ", "A">>,
       <<"E", "r", "e", "d", "i", "v", "i", "s", "i", "e">>,
       <<"L", "i", "g", "u", "e", " ", "1">>,
       <<"C", "h", "a", "m", "p", "i", "o", "n", "s", " ", "L", "e", "a", "g", "u", "e">>,
       <<"E", "u", "r", "o", "p", "a", " ", "L", "e", "a", "g", "u", "e">>,
       <<"W", "o", "r", "l", "d", " ", "C", "u", "p">>,
       <<"A", "f", "c", "o", "n">>,
       <<"W", "o", "r", "l", "d", " ", "C", "u", "p", " ", "U", "1", "7">> >>

\* KJ_PRIORITY maps the lowered name of KJ_ORDER[k] to k - 1.
DEFAULT_PRIORITY == Len(KJ_ORDER)

KjLeague(k) == ToLower(KJ_ORDER[k])

\* KJ_PRIORITY.get(name, DEFAULT_PRIORITY)
KjPriorityGet(name) ==
    IF \E k \in 1..Len(KJ_ORDER) : KjLeague(k) = name
    THEN (CHOOSE k \in 1..Len(KJ_ORDER) : KjLeague(k) = name) - 1
    ELSE DEFAULT_PRIORITY

\* The test of the loop of get_league_priority for the league at k.
LeagueMatches(k, competition) ==
    \/ Contains(competition, KjLeague(k))
    \/ Contains(KjLeague(k), competition)
    \/ RatioAbove80(KjLeague(k), competition)

RECURSIVE FirstLeague(_, _)
\* The position in KJ_ORDER of the first league from k on that the loop
\* accepts, 0 when there is none.
FirstLeague(k, competition) ==
    IF k > Len(KJ_ORDER) THEN 0
    ELSE IF LeagueMatches(k, competition) THEN k
    ELSE FirstLeague(k + 1, competition)

\* api.get_league_priority
get_league_priority(competition_name) ==
    LET competition == ToLower(competition_name)
        hit == FirstLeague(1, competition)
    IN  IF hit # 0
        THEN hit - 1
        ELSE IF Contains(competition, <<"c", "h", "a", "m", "p", "i", "o", "n", "s">>)
             THEN KjPriorityGet(<<"c", "h", "a", "m", "p", "i", "o", "n", "s", " ", "l", "e", "a", "g", "u", "e">>)
        ELSE IF Contains(competition, <<"e", "u", "r", "o", "p", "a">>)
             THEN KjPriorityGet(<<"e", "u", "r", "o", "p", "a", " ", "l", "e", "a", "g", "u", "e">>)
        ELSE IF Contains(competition, <<"w", "o", "r", "l", "d", " ", "c", "u", "p">>)
             THEN KjPriorityGet(<<"w", "o", "r", "l", "d", " ", "c", "u", "p">>)
        ELSE IF Contains(competition, <<"a", "f", "c", "o", "n">>) \/ Contains(competition, <<"a", "f", "r", "i", "c", "a", " ", "c", "u", "p">>)
             THEN KjPriorityGet(<<"a", "f", "c", "o", "n">>)
        ELSE DEFAULT_PRIORITY

\* ------------------------------------------------- listing page markup
\* An optional value is a sequence of length 0 or 1.
None == <<>>
Some(x) == <<x>>

\* The href of the primary link. kind: "rooted" when it starts with "/",
\* "absolute" when it is a full URL, "relative" otherwise. ref: the digits
\* that follow "/eventinfo/" in it, 0 when "/eventinfo/<digits>" does not
\* occur in it. text: the attribute as written.
H_1 == [kind |-> "rooted", ref |-> 1, text |-> "/enx/eventinfo/1_a_b/"]
H_2 == [kind |-> "rooted", ref |-> 2, text |-> "/enx/eventinfo/2_c_d/"]
H_other == [kind |-> "rooted", ref |-> 0, text |-> "/enx/other/"]

\* The first line of the evdesc span. fmt:
\*   "full"  "<day> <MonthName> at <HH:MM>", which strptime accepts;
\*   "abbr"  "<day> <Mon> at <HH:MM>": the pattern matches, strptime raises;
\*   "plain" "<day> <MonthName>": a day and a month token, the pattern
\*           does not match;
\*   "none"  a text with no day number followed by letters.
\* tail: text that follows the first line in the same string, if any.
MkDate(fmt, day, month, hour) ==
    [fmt |-> fmt, day |-> day, month |-> month, hour |-> hour, tail |-> None]

D_today == MkDate("full", TodayDay, TodayMonth, 20)
D_tomorrow == MkDate("full", TodayDay + 1, TodayMonth, 18)
D_plain == MkDate("plain", TodayDay, TodayMonth, 0)

\* A table block of the listing page.
\*   link   the block has an <a class="live"> or <a class="bottomgray">
\*   title  the text of that link
\*   href   its href attribute, if any
\*   date   the first text line of the evdesc span, if the span is there
\*   comp   the second text line of the span, if any
\*   nl     the raw text of the span contains a newline character
\*   alt    the alt attribute of the first <img alt=...>, if any
\*   live   the block holds an <img> whose src contains "live.gif"
MkBlock(link, title, href, date, comp, nl, alt, live) ==
    [link |-> link, title |-> title, href |-> href, date |-> date,
     comp |-> comp, nl |-> nl, alt |-> alt, live |-> live]

\* The blocks the listing pages of the model are built from.
ListingBlocks ==
    { MkBlock(TRUE,  "A - B", Some(H_1),     Some(D_today),    Some(<<"(", "P", "r", "e", "m", "i", "e", "r", " ", "L", "e", "a", "g", "u", "e", ")">>), TRUE,  Some("England"), TRUE),
      MkBlock(TRUE,  "E - F", Some(H_other), Some(D_plain),    None,                     FALSE, None,            FALSE),
      MkBlock(TRUE,  "G - H", None,          Some(D_today),    None,                     FALSE, None,            FALSE),
      MkBlock(TRUE,  "I - J", Some(H_2),     Some(D_tomorrow), None,                     TRUE,  None,            FALSE),
      MkBlock(FALSE, "",      None,          None,             None,                     FALSE, None,            FALSE) }

Pages == UNION { [1..n -> ListingBlocks] : n \in 0..MaxBlocks }

\* The bodies a response with an error status comes with.
ErrorBodies == UNION { [1..n -> ListingBlocks] : n \in 0..MaxErrorBlocks }

\* -------------------------------------------------------- listing parse
BaseUrl == "https://livetv.sx"

\* urljoin(base_url, href)
UrlJoin(href) ==
    CASE href.kind = "rooted"   -> BaseUrl \o href.text
      [] href.kind = "absolute" -> href.text
      [] OTHER                  -> BaseUrl \o "/" \o href.text

\* re.search(r'/eventinfo/(\d+)', stream_href) found a match.
EventRefMatches(href) == href.ref # 0

\* re.search(r'(\d+)\s+([A-Za-z]+)\s+at\s+(\d+:\d+)', text) found a match.
MonthPatternMatches(date) == date.fmt \in {"full", "abbr"}

\* datetime.strptime(..., '%d %B at %H:%M') raises ValueError.
StrptimeRaises(date) == date.fmt = "abbr"

\* parsed_date.isoformat() after .replace(year=current_year), as the
\* tuple its text orders like: year, month, day, hour.
IsoFormat(date) == <<ThisYear, date.month, date.day, date.hour>>

\* The link, event_url and event_id part of vrt._parse_broadcast_item.
VrtLinkPart(block) ==
    LET d0 == Put(EmptyDict, "matchup", block.title)
    IN  IF block.href = None
        THEN d0
        ELSE LET href == block.href[1]
                 d1 == Put(d0, "event_url", UrlJoin(href))
             IN  IF EventRefMatches(href) THEN Put(d1, "event_id", href.ref) ELSE d1

\* The link, event_url and event_id part of api._parse_broadcast_item:
\* the event id is looked for only in an href that starts with "/".
ApiLinkPart(block) ==
    LET d0 == Put(EmptyDict, "matchup", block.title)
    IN  IF block.href = None
        THEN d0
        ELSE LET href == block.href[1]
             IN  IF href.kind = "rooted"
                 THEN LET d1 == Put(d0, "event_url", BaseUrl \o href.text)
                      IN  IF EventRefMatches(href)
                          THEN Put(d1, "event_id", href.ref) ELSE d1
                 ELSE Put(d0, "event_url", href.text)

\* The parsed_datetime part, common to both: set from the text when the
\* pattern matches, set to None (the empty tuple) when strptime raises,
\* left out when the pattern does not match.
DatePart(d, date, withObj) ==
    IF ~MonthPatternMatches(date) THEN d
    ELSE IF StrptimeRaises(date)
         THEN LET d1 == Put(d, "parsed_datetime", None)
              IN  IF withObj THEN Put(d1, "datetime_obj", None) ELSE d1
         ELSE LET d1 == Put(d, "parsed_datetime", IsoFormat(date))
              IN  IF withObj THEN Put(d1, "datetime_obj", Some(IsoFormat(date))) ELSE d1

\* The img part, common to both.
ImgPart(d, block) ==
    LET d1 == IF block.alt = None THEN d ELSE Put(d, "logo_alt", block.alt[1])
    IN  Put(d1, "is_live", block.live)

\* vrt.BroadcastScraper._parse_broadcast_item: the dict of one block,
\* or None.
VrtParseBroadcastItem(block) ==
    IF ~block.link THEN None
    ELSE LET d1 == VrtLinkPart(block)
             d2 == IF block.date = None THEN d1
                   ELSE LET d3 == Put(d1, "date_time", block.date[1])
                            d4 == IF block.comp = None THEN d3
                                  ELSE Put(d3, "competition", StripParens(block.comp[1]))
                        IN  DatePart(d4, block.date[1], FALSE)
         IN  Some(ImgPart(d2, block))

\* api.BroadcastScraper._parse_broadcast_item. Without a newline in the
\* raw text of the span the whole text is the one part: date_time carries
\* the competition text as its tail and no competition is set.
ApiParseBroadcastItem(block) ==
    IF ~block.link THEN None
    ELSE LET d1 == ApiLinkPart(block)
             d2 == IF block.date = None THEN d1
                   ELSE IF block.nl
                        THEN LET d3 == Put(d1, "date_time", block.date[1])
                                 d4 == IF block.comp = None THEN d3
                                       ELSE Put(d3, "competition", StripParens(block.comp[1]))
                             IN  DatePart(d4, block.date[1], TRUE)
                        ELSE LET text == [block.date[1] EXCEPT !.tail = block.comp]
                             IN  DatePart(Put(d1, "date_time", text), text, TRUE)
         IN  Some(ImgPart(d2, block))

\* re.search(rf'\b{today_day}\s+[A-Za-z]+', text) found a match.
DayPatternMatches(date) == date.fmt # "none" /\ date.day = TodayDay

\* The date test of vrt.get_fixtures_for_sport.
VrtIsToday(fixture) ==
    Has(fixture, "date_time") /\ DayPatternMatches(fixture["date_time"])

\* The date test of api.get_fixtures_for_sport.
ApiIsToday(fixture) ==
    IF Has(fixture, "datetime_obj") /\ fixture["datetime_obj"] # None
    THEN LET dt == fixture["datetime_obj"][1]
         IN  dt[1] = ThisYear /\ dt[2] = TodayMonth /\ dt[3] = TodayDay
    ELSE Has(fixture, "date_time") /\ DayPatternMatches(fixture["date_time"])

RECURSIVE VrtScan_StopAtBadBlock(_, _)
\* VrtScan with the loop left at the first block that gives no record.
VrtScan_StopAtBadBlock(page, k) ==
    IF k > Len(page) THEN <<>>
    ELSE LET fixture == VrtParseBroadcastItem(page[k])
         IN  IF fixture = None THEN <<>>
             ELSE IF VrtIsToday(fixture[1])
             THEN <<fixture[1]>> \o VrtScan_StopAtBadBlock(page, k + 1)
             ELSE VrtScan_StopAtBadBlock(page, k + 1)

RECURSIVE VrtScan(_, _)
\* The loop of vrt.get_fixtures_for_sport over the blocks from position k,
\* today_fixtures being acc so far.
VrtScan(page, k) ==
    IF k > Len(page) THEN <<>>
    ELSE LET fixture == VrtParseBroadcastItem(page[k])
         IN  IF fixture # None /\ VrtIsToday(fixture[1])
             THEN <<fixture[1]>> \o VrtScan(page, k + 1)
             ELSE VrtScan(page, k + 1)

\* any(f.get('event_id') == fixture.get('event_id') and
\*     f.get('event_id') is not None for f in today_fixtures)
IsDuplicate(acc, fixture) ==
    \E i \in 1..Len(acc) :
        /\ Has(acc[i], "event_id")
        /\ Has(fixture, "event_id")
        /\ acc[i]["event_id"] = fixture["event_id"]

RECURSIVE ApiScan(_, _, _)
\* The loop of api.get_fixtures_for_sport.
ApiScan(page, k, acc) ==
    IF k > Len(page) THEN acc
    ELSE LET fixture == ApiParseBroadcastItem(page[k])
         IN  IF fixture # None /\ ApiIsToday(fixture[1]) /\ ~IsDuplicate(acc, fixture[1])
             THEN ApiScan(page, k + 1, Append(acc, fixture[1]))
             ELSE ApiScan(page, k + 1, acc)

\* del f['datetime_obj']
DelKey(d, k) == [x \in (DOMAIN d) \ {k} |-> d[x]]

\* ------------------------------------------------------- detail pages
\* What the site answers to a detail request:
\*   status  "ok" a 2xx response with the detail page, "non2xx" an error
\*           status with an error page, "exc" no response (timeout,
\*           connection error), "malformed" a 2xx response with a body
\*           the HTML parser refuses (BeautifulSoup raises)
\*   logos   the number of <img itemprop="image" alt=...> of the body
\*   streams the number of stream tables of its links_block that have at
\*           least 7 cells
\* The detail page of event 1 shows two logos and one stream, the other
\* detail pages one logo and no stream, the error page neither.
DetailResponses(url) ==
    { [status |-> "ok",
       logos |-> IF url = UrlJoin(H_1) THEN 2 ELSE 1,
       streams |-> IF url = UrlJoin(H_1) THEN 1 ELSE 0],
      [status |-> "non2xx", logos |-> 0, streams |-> 0],
      [status |-> "exc",    logos |-> 0, streams |-> 0] }

\* The team_logos list parsed from the body served for url.
LogosOf(url, resp) == [k \in 1..resp.logos |-> [page |-> url, logo |-> k]]

\* The streams list parsed from the body served for url.
StreamsOf(url, resp) == [k \in 1..resp.streams |-> [page |-> url, stream |-> k]]

\* A detail response the parser refuses.
Malformed == [status |-> "malformed", logos |-> 0, streams |-> 0]

\* vrt.BroadcastScraper.get_event_details_concurrent: the status of the
\* response is not looked at; None when session.get or the parser raises.
VrtGetEventDetails(url, resp) ==
    IF resp.status \in {"exc", "malformed"} THEN None
    ELSE Some([team_logos |-> LogosOf(url, resp), streams |-> StreamsOf(url, resp)])

\* api.BroadcastScraper.get_event_details_sequential_streams:
\* raise_for_status turns an error status into an exception.
\* successful_requests is counted once raise_for_status has passed,
\* before the body is parsed; failed_requests in the except branch.
SuccessCounted(resp) == IF resp.status \in {"ok", "malformed"} THEN 1 ELSE 0
FailureCounted(resp) == IF resp.status = "ok" THEN 0 ELSE 1

ApiGetEventDetails(url, resp) ==
    IF resp.status # "ok" THEN None
    ELSE Some([event_url |-> url, team_logos |-> LogosOf(url, resp),
               streams |-> StreamsOf(url, resp)])

\* VrtMerge with is_live taken anew from the detail page.
VrtMerge_RefreshLive(fixture, details) ==
    IF details = None THEN fixture
    ELSE Put(Put(Put(fixture, "team_logos", details[1].team_logos),
                 "streams", details[1].streams),
             "is_live", details[1].streams # <<>>)

\* The merge of vrt.process_fixture_concurrent: both lists are stored
\* whenever details is not None.
VrtMerge(fixture, details) ==
    IF details = None THEN fixture
    ELSE Put(Put(fixture, "team_logos", details[1].team_logos),
             "streams", details[1].streams)

\* vrt.BroadcastScraper.process_fixture_concurrent on a fixture that has
\* an event_url, given the response to its request.
VrtProcessFixture(fixture, resp) ==
    VrtMerge(fixture, VrtGetEventDetails(fixture["event_url"], resp))

\* The merge of api.process_fixture_concurrent: a list is stored only
\* when it is not empty.
ApiMerge(fixture, details) ==
    IF details = None THEN fixture
    ELSE LET f1 == IF details[1].team_logos # <<>>
                   THEN Put(fixture, "team_logos", details[1].team_logos)
                   ELSE fixture
         IN  IF details[1].streams # <<>>
             THEN Put(f1, "streams", details[1].streams)
             ELSE f1

\* api.BroadcastScraper.process_fixture_concurrent, likewise.
ApiProcessFixture(fixture, resp) ==
    ApiMerge(fixture, ApiGetEventDetails(fixture["event_url"], resp))

\* ------------------------------------------------ sorting and filtering
\* datetime.min.isoformat(), as IsoFormat writes a date.
MinIso == <<1, 1, 1, 0>>

RECURSIVE TupleLess(_, _)
\* x < y for two texts of the same length, as tuples of their parts.
TupleLess(x, y) ==
    IF x = <<>> \/ y = <<>> THEN FALSE
    ELSE IF Head(x) # Head(y) THEN Head(x) < Head(y)
    ELSE TupleLess(Tail(x), Tail(y))

\* sort_key of sort_by_league_priority: (priority, time_sort). The
\* default of get is used only when the key is absent, so a
\* parsed_datetime of None stays None.
SortKey(fixture) ==
    <<get_league_priority(Get(fixture, "competition", <<>>)),
      Get(fixture, "parsed_datetime", MinIso)>>

\* x < y on two sort keys: 1 for true, 0 for false, -1 when Python raises
\* TypeError because the priorities are equal and one time is None while
\* the other is not.
KeyLess(x, y) ==
    IF x[1] # y[1] THEN (IF x[1] < y[1] THEN 1 ELSE 0)
    ELSE IF x[2] = y[2] THEN 0
    ELSE IF x[2] = None \/ y[2] = None THEN -1
    ELSE IF TupleLess(x[2], y[2]) THEN 1 ELSE 0

RECURSIVE RunEnd(_, _, _)
\* count_run of list.sort: the length of the run that starts the list,
\* from its third element on; desc tells whether the run is descending.
RunEnd(keys, k, desc) ==
    IF k > Len(keys) THEN [n |-> Len(keys), err |-> FALSE]
    ELSE LET c == KeyLess(keys[k], keys[k - 1])
         IN  IF c = -1 THEN [n |-> 0, err |-> TRUE]
             ELSE IF (c = 1) = desc THEN RunEnd(keys, k + 1, desc)
             ELSE [n |-> k - 1, err |-> FALSE]

Reverse(a) == [k \in 1..Len(a) |-> a[Len(a) + 1 - k]]

RECURSIVE BinarySearch(_, _, _, _, _)
\* The search of binary_sort for the place of pivot in a[l..r-1].
BinarySearch(keys, a, pivot, l, r) ==
    IF l >= r THEN [pos |-> l, err |-> FALSE]
    ELSE LET p == l + ((r - l) \div 2)
             c == KeyLess(keys[pivot], keys[a[p]])
         IN  IF c = -1 THEN [pos |-> 0, err |-> TRUE]
             ELSE IF c = 1 THEN BinarySearch(keys, a, pivot, l, p)
             ELSE BinarySearch(keys, a, pivot, p + 1, r)

RECURSIVE BinarySort(_, _, _)
\* binary_sort of list.sort: a[1..start-1] is sorted, the rest is
\* inserted one by one. a holds positions into keys.
BinarySort(keys, a, start) ==
    IF start > Len(a) THEN [perm |-> a, err |-> FALSE]
    ELSE LET at == BinarySearch(keys, a, a[start], 1, start)
         IN  IF at.err THEN [perm |-> a, err |-> TRUE]
             ELSE BinarySort(keys,
                             SubSeq(a, 1, at.pos - 1) \o <<a[start]>>
                                 \o SubSeq(a, at.pos, start - 1)
                                 \o SubSeq(a, start + 1, Len(a)),
                             start + 1)

\* sorted(keys) for a list shorter than 64, as list.sort does it: the
\* order as positions into keys, or err when a comparison raises.
SortedPositions(keys) ==
    LET ident == [k \in 1..Len(keys) |-> k]
    IN  IF Len(keys) < 2 THEN [perm |-> ident, err |-> FALSE]
        ELSE LET c == KeyLess(keys[2], keys[1])
             IN  IF c = -1 THEN [perm |-> ident, err |-> TRUE]
                 ELSE LET run == RunEnd(keys, 3, c = 1)
                      IN  IF run.err THEN [perm |-> ident, err |-> TRUE]
                          ELSE LET a == IF c = 1
                                        THEN Reverse(SubSeq(ident, 1, run.n))
                                                 \o SubSeq(ident, run.n + 1, Len(keys))
                                        ELSE ident
                               IN  BinarySort(keys, a, run.n + 1)

\* api.sort_by_league_priority
sort_by_league_priority(fixtures) ==
    LET s == SortedPositions([k \in 1..Len(fixtures) |-> SortKey(fixtures[k])])
    IN  [list |-> [k \in 1..Len(fixtures) |-> fixtures[s.perm[k]]], raised |-> s.err]

RECURSIVE SelectSeqBy(_, _)
SelectSeqBy(list, keep) ==
    IF list = <<>> THEN <<>>
    ELSE (IF keep[1] THEN <<Head(list)>> ELSE <<>>)
             \o SelectSeqBy(Tail(list), Tail(keep))

\* api.filter_by_logo_presence: keeps the fixtures with at least two logos.
filter_by_logo_presence(fixtures) ==
    SelectSeqBy(fixtures,
                [k \in 1..Len(fixtures) |-> Len(Get(fixtures[k], "team_logos", <<>>)) >= 2])

\* ------------------------------------------------------------- state
VARIABLES
    prog,              \* "vrt": scraper.main over vrt.py; "api": api.main
    listing,           \* what the site answers to the listing request
    published,         \* the output file: index.json / today_fixtures_<date>.json
    pc,                \* where the main thread is
    today_fixtures,    \* the list get_fixtures_for_sport returned
    task,              \* the state of the future of each fixture
    processed,         \* vrt: the list `processed`, as positions
    ordered_results,   \* api: the dict `ordered_results`, position -> position
    result,            \* the list the main function got back
    outcome,           \* how the main function ended
    listing_requests,  \* listing requests sent
    issued,            \* detail requests sent, per fixture
    response,          \* what the site does with each fixture's request, once sent
    successful_requests, failed_requests,   \* api counters
    completed_tasks, total_tasks            \* api progress

vars == <<prog, listing, published, pc, today_fixtures, task, processed,
          ordered_results, result, outcome, listing_requests, issued,
          response, successful_requests, failed_requests, completed_tasks,
          total_tasks>>

\* A snapshot published by an earlier run.
OldSnapshot == <<[matchup |-> "Y - Z", event_id |-> 9]>>

\* The output file before the run: missing, or an earlier snapshot.
\* complete is FALSE while a write is under way.
NoFile == [exists |-> FALSE, complete |-> TRUE, data |-> <<>>]
FileOf(data) == [exists |-> TRUE, complete |-> TRUE, data |-> data]
Truncated == [exists |-> TRUE, complete |-> FALSE, data |-> <<>>]

ListingResponses ==
    { [status |-> "exc", body |-> <<>>] }
    \cup { [status |-> "ok", body |-> page] : page \in Pages }
    \cup { [status |-> "non2xx", body |-> page] : page \in ErrorBodies }

\* The state of a run that has not started: nothing fetched, no task,
\* the counters as the constructor sets them.
Idle ==
    /\ pc = "start"
    /\ today_fixtures = <<>>
    /\ task = <<>>
    /\ processed = <<>>
    /\ ordered_results = <<>>
    /\ result = <<>>
    /\ outcome = "running"
    /\ listing_requests = 0
    /\ issued = <<>>
    /\ response = <<>>
    /\ successful_requests = 0
    /\ failed_requests = 0
    /\ completed_tasks = 0
    /\ total_tasks = 0

Init ==
    /\ prog \in {"vrt", "api"}
    /\ listing \in ListingResponses
    /\ published \in {NoFile, FileOf(OldSnapshot)}
    /\ Idle

N == Len(today_fixtures)

\* -------------------------------------------------------- listing stage
\* vrt.BroadcastScraper.get_fixtures_for_sport: any exception gives an
\* empty list; the status of the response is not looked at.
VrtGetFixtures(resp) ==
    IF resp.status = "exc" THEN <<>> ELSE VrtScan(resp.body, 1)

\* api.BroadcastScraper.get_fixtures_for_sport: raise_for_status turns an
\* error status into a RequestException; datetime_obj is deleted from
\* every fixture kept.
ApiGetFixtures(resp) ==
    IF resp.status # "ok" THEN <<>>
    ELSE LET kept == ApiScan(resp.body, 1, <<>>)
         IN  [i \in 1..Len(kept) |-> DelKey(kept[i], "datetime_obj")]

\* The main thread calls get_fixtures_for_sport.
VrtListing ==
    /\ prog = "vrt" /\ pc = "start"
    /\ listing_requests' = listing_requests + 1
    /\ today_fixtures' = VrtGetFixtures(listing)
    /\ pc' = "listed"
    /\ UNCHANGED <<prog, listing, published, task, processed, ordered_results,
                   result, outcome, issued, response, successful_requests,
                   failed_requests, completed_tasks, total_tasks>>

ApiListing ==
    /\ prog = "api" /\ pc = "start"
    /\ listing_requests' = listing_requests + 1
    /\ today_fixtures' = ApiGetFixtures(listing)
    /\ successful_requests' = successful_requests + (IF listing.status = "ok" THEN 1 ELSE 0)
    /\ failed_requests' = failed_requests + (IF listing.status = "ok" THEN 0 ELSE 1)
    /\ pc' = "listed"
    /\ UNCHANGED <<prog, listing, published, task, processed, ordered_results,
                   result, outcome, issued, response, completed_tasks, total_tasks>>

\* vrt.run_scraper_and_get_data returns [] for an empty list and
\* scraper.main then leaves with sys.exit(0) before it opens the file;
\* api.main returns.
NoFixtures ==
    /\ pc = "listed" /\ today_fixtures = <<>>
    /\ pc' = "exited"
    /\ outcome' = "no_data"
    /\ UNCHANGED <<prog, listing, published, today_fixtures, task, processed,
                   ordered_results, result, listing_requests, issued, response,
                   successful_requests, failed_requests, completed_tasks,
                   total_tasks>>

\* -------------------------------------------------------- enriching stage
\* process_all_fixtures_concurrent submits one task per fixture; the api
\* version first resets the progress counters.
SubmitAll ==
    /\ pc = "listed" /\ today_fixtures # <<>>
    /\ task' = [i \in 1..N |-> "queued"]
    /\ issued' = [i \in 1..N |-> 0]
    /\ response' = [i \in 1..N |-> None]
    /\ IF prog = "api"
       THEN completed_tasks' = 0 /\ total_tasks' = N
       ELSE UNCHANGED <<completed_tasks, total_tasks>>
    /\ pc' = "enriching"
    /\ UNCHANGED <<prog, listing, published, today_fixtures, processed,
                   ordered_results, result, outcome, listing_requests,
                   successful_requests, failed_requests>>

Running == { i \in 1..N : task[i] = "running" }

\* WorkerFree with the size of the pool ignored.
WorkerFree_Unbounded == TRUE

\* ThreadPoolExecutor: a free worker takes the oldest queued task.
WorkerFree == Cardinality(Running) < MaxWorkers

NextQueued(i) == task[i] = "queued" /\ \A j \in 1..(i - 1) : task[j] # "queued"

\* A worker starts process_fixture_concurrent(fixture i): with an
\* event_url it sends the detail request, and what the site does with
\* that request (resp) is settled from then on.
StartTask(i) ==
    /\ pc = "enriching"
    /\ NextQueued(i)
    /\ WorkerFree
    /\ task' = [task EXCEPT ![i] = "running"]
    /\ IF Has(today_fixtures[i], "event_url")
       THEN /\ issued' = [issued EXCEPT ![i] = @ + 1]
            /\ \E resp \in DetailResponses(today_fixtures[i]["event_url"]) :
                   response' = [response EXCEPT ![i] = Some(resp)]
       ELSE UNCHANGED <<issued, response>>
    /\ UNCHANGED <<prog, listing, published, pc, today_fixtures, processed,
                   ordered_results, result, outcome, listing_requests,
                   successful_requests, failed_requests, completed_tasks,
                   total_tasks>>

\* StartTask for a fixture whose detail page comes with status 200 and a
\* body the parser refuses.
StartTaskMalformed(i) ==
    /\ pc = "enriching"
    /\ NextQueued(i)
    /\ WorkerFree
    /\ Has(today_fixtures[i], "event_url")
    /\ task' = [task EXCEPT ![i] = "running"]
    /\ issued' = [issued EXCEPT ![i] = @ + 1]
    /\ response' = [response EXCEPT ![i] = Some(Malformed)]
    /\ UNCHANGED <<prog, listing, published, pc, today_fixtures, processed,
                   ordered_results, result, outcome, listing_requests,
                   successful_requests, failed_requests, completed_tasks,
                   total_tasks>>

\* FetchReturns without the timeout: a request the site never answers
\* never comes back.
FetchReturns_NoTimeout(resp) == resp.status \in {"ok", "non2xx", "malformed"}

\* session.get(event_url, timeout=...) comes back: with the response, or
\* with an exception once the timeout has passed.
FetchReturns(resp) == resp.status \in {"ok", "non2xx", "exc", "malformed"}

\* FinishFetch with the result merged into the next fixture of the list
\* instead of the one it was fetched for.
FinishFetch_WrongTarget(i) ==
    /\ pc = "enriching"
    /\ task[i] = "running"
    /\ Has(today_fixtures[i], "event_url")
    /\ FetchReturns(response[i][1])
    /\ LET j == (i % N) + 1
           url == today_fixtures[i]["event_url"]
       IN  IF prog = "vrt"
           THEN /\ today_fixtures' = [today_fixtures EXCEPT ![j] =
                        VrtMerge(@, VrtGetEventDetails(url, response[i][1]))]
                /\ UNCHANGED <<successful_requests, failed_requests, completed_tasks>>
           ELSE /\ today_fixtures' = [today_fixtures EXCEPT ![j] =
                        ApiMerge(@, ApiGetEventDetails(url, response[i][1]))]
                /\ successful_requests' = successful_requests + SuccessCounted(response[i][1])
                /\ failed_requests' = failed_requests + FailureCounted(response[i][1])
                /\ completed_tasks' = completed_tasks + 1
    /\ task' = [task EXCEPT ![i] = "done"]
    /\ UNCHANGED <<prog, listing, published, pc, processed, ordered_results,
                   result, outcome, listing_requests, issued, response,
                   total_tasks>>

\* FinishFetch with the worker itself storing its result in the
\* collection of results instead of leaving that to the main thread.
FinishFetch_WorkerStores(i) ==
    /\ pc = "enriching"
    /\ task[i] = "running"
    /\ Has(today_fixtures[i], "event_url")
    /\ FetchReturns(response[i][1])
    /\ IF prog = "vrt"
       THEN /\ today_fixtures' = [today_fixtures EXCEPT ![i] = VrtProcessFixture(@, response[i][1])]
            /\ processed' = Append(processed, i)
            /\ UNCHANGED <<ordered_results, successful_requests, failed_requests, completed_tasks>>
       ELSE /\ today_fixtures' = [today_fixtures EXCEPT ![i] = ApiProcessFixture(@, response[i][1])]
            /\ ordered_results' = Put(ordered_results, i, i)
            /\ successful_requests' = successful_requests + SuccessCounted(response[i][1])
            /\ failed_requests' = failed_requests + FailureCounted(response[i][1])
            /\ completed_tasks' = completed_tasks + 1
            /\ UNCHANGED processed
    /\ task' = [task EXCEPT ![i] = "collected"]
    /\ UNCHANGED <<prog, listing, published, pc, result, outcome,
                   listing_requests, issued, response, total_tasks>>

\* The request of fixture i is answered (or times out) and the worker
\* finishes process_fixture_concurrent.
FinishFetch(i) ==
    /\ pc = "enriching"
    /\ task[i] = "running"
    /\ Has(today_fixtures[i], "event_url")
    /\ FetchReturns(response[i][1])
    /\ IF prog = "vrt"
       THEN /\ today_fixtures' = [today_fixtures EXCEPT ![i] = VrtProcessFixture(@, response[i][1])]
            /\ UNCHANGED <<successful_requests, failed_requests, completed_tasks>>
       ELSE /\ today_fixtures' = [today_fixtures EXCEPT ![i] = ApiProcessFixture(@, response[i][1])]
            /\ successful_requests' = successful_requests + SuccessCounted(response[i][1])
            /\ failed_requests' = failed_requests + FailureCounted(response[i][1])
            /\ completed_tasks' = completed_tasks + 1
    /\ task' = [task EXCEPT ![i] = "done"]
    /\ UNCHANGED <<prog, listing, published, pc, processed, ordered_results,
                   result, outcome, listing_requests, issued, response,
                   total_tasks>>

\* process_fixture_concurrent on a fixture without event_url returns it
\* as it is.
FinishNoUrl(i) ==
    /\ pc = "enriching"
    /\ task[i] = "running"
    /\ ~Has(today_fixtures[i], "event_url")
    /\ task' = [task EXCEPT ![i] = "done"]
    /\ UNCHANGED <<prog, listing, published, pc, today_fixtures, processed,
                   ordered_results, result, outcome, listing_requests, issued,
                   response, successful_requests, failed_requests,
                   completed_tasks, total_tasks>>

\* Collect with the exception of a failed fetch let through: it leaves
\* the loop and ends the run.
Collect_AbortOnFailure(i) ==
    /\ pc = "enriching"
    /\ task[i] = "done"
    /\ IF response[i] # None /\ response[i][1].status = "exc"
       THEN /\ pc' = "exited" /\ outcome' = "crash"
            /\ UNCHANGED <<task, processed, ordered_results>>
       ELSE /\ task' = [task EXCEPT ![i] = "collected"]
            /\ IF prog = "vrt"
               THEN processed' = Append(processed, i) /\ UNCHANGED ordered_results
               ELSE ordered_results' = Put(ordered_results, i, i) /\ UNCHANGED processed
            /\ UNCHANGED <<pc, outcome>>
    /\ UNCHANGED <<prog, listing, published, today_fixtures, result,
                   listing_requests, issued, response,
                   successful_requests, failed_requests, completed_tasks,
                   total_tasks>>

\* The main thread takes a finished future from as_completed: vrt appends
\* its result to processed, api stores it under its position.
Collect(i) ==
    /\ pc = "enriching"
    /\ task[i] = "done"
    /\ task' = [task EXCEPT ![i] = "collected"]
    /\ IF prog = "vrt"
       THEN processed' = Append(processed, i) /\ UNCHANGED ordered_results
       ELSE ordered_results' = Put(ordered_results, i, i) /\ UNCHANGED processed
    /\ UNCHANGED <<prog, listing, published, pc, today_fixtures, result,
                   outcome, listing_requests, issued, response,
                   successful_requests, failed_requests, completed_tasks,
                   total_tasks>>

\* api.process_fixture_concurrent raises: the write of the progress bar
\* fails (sys.stdout.write in _show_progress) after the details have been
\* merged and the task counted, the except branch counts the task again
\* and calls _show_progress again, and this second failure leaves the
\* task. Only a fixture with an event_url gets that far.
TaskRaises(i) ==
    /\ prog = "api" /\ pc = "enriching"
    /\ task[i] = "running"
    /\ Has(today_fixtures[i], "event_url")
    /\ FetchReturns(response[i][1])
    /\ today_fixtures' = [today_fixtures EXCEPT ![i] = ApiProcessFixture(@, response[i][1])]
    /\ successful_requests' = successful_requests + SuccessCounted(response[i][1])
    /\ failed_requests' = failed_requests + FailureCounted(response[i][1])
    /\ completed_tasks' = completed_tasks + 2
    /\ task' = [task EXCEPT ![i] = "raised"]
    /\ UNCHANGED <<prog, listing, published, pc, processed, ordered_results,
                   result, outcome, listing_requests, issued, response,
                   total_tasks>>

\* CollectRaised with the future that raised skipped.
CollectRaised_Skip(i) ==
    /\ prog = "api" /\ pc = "enriching"
    /\ task[i] = "raised"
    /\ task' = [task EXCEPT ![i] = "collected"]
    /\ UNCHANGED <<prog, listing, published, pc, today_fixtures, processed,
                   ordered_results, result, outcome, listing_requests, issued,
                   response, successful_requests, failed_requests,
                   completed_tasks, total_tasks>>

\* The main thread of api.process_all_fixtures_concurrent takes a future
\* whose result() raises: it stores fixtures[idx] under its position.
CollectRaised(i) ==
    /\ prog = "api" /\ pc = "enriching"
    /\ task[i] = "raised"
    /\ task' = [task EXCEPT ![i] = "collected"]
    /\ ordered_results' = Put(ordered_results, i, i)
    /\ UNCHANGED <<prog, listing, published, pc, today_fixtures, processed,
                   result, outcome, listing_requests, issued, response,
                   successful_requests, failed_requests, completed_tasks,
                   total_tasks>>

AllCollected == \A i \in 1..N : task[i] = "collected"

\* ----------------------------------------------- aggregating, publishing
\* VrtReturn taken as soon as one future has been collected, without
\* waiting for the others.
VrtReturn_BeforeAllDone ==
    /\ prog = "vrt" /\ pc = "enriching"
    /\ \E i \in 1..N : task[i] = "collected"
    /\ result' = [k \in 1..Len(processed) |-> today_fixtures[processed[k]]]
    /\ pc' = "returned"
    /\ UNCHANGED <<prog, listing, published, today_fixtures, task, processed,
                   ordered_results, outcome, listing_requests, issued, response,
                   successful_requests, failed_requests, completed_tasks,
                   total_tasks>>

\* vrt.process_all_fixtures_concurrent returns processed, which
\* run_scraper_and_get_data hands to scraper.main as data_map.
VrtReturn ==
    /\ prog = "vrt" /\ pc = "enriching" /\ AllCollected
    /\ result' = [k \in 1..Len(processed) |-> today_fixtures[processed[k]]]
    /\ pc' = "returned"
    /\ UNCHANGED <<prog, listing, published, today_fixtures, task, processed,
                   ordered_results, outcome, listing_requests, issued, response,
                   successful_requests, failed_requests, completed_tasks,
                   total_tasks>>

\* api.process_all_fixtures_concurrent: the results in the order of
\* their positions.
ApiProcessedFixtures ==
    LET keys == DOMAIN ordered_results
        Rank(i) == Cardinality({ j \in keys : j <= i })
    IN  [k \in 1..Cardinality(keys) |->
            today_fixtures[ordered_results[CHOOSE i \in keys : Rank(i) = k]]]

\* api.main after the enriching: filter_by_logo_presence, then
\* sort_by_league_priority; it returns without saving when nothing is
\* left and dies when the sort raises.
ApiAggregate ==
    /\ prog = "api" /\ pc = "enriching" /\ AllCollected
    /\ LET filtered == filter_by_logo_presence(ApiProcessedFixtures)
           sorted == sort_by_league_priority(filtered)
       IN  IF filtered = <<>>
           THEN pc' = "exited" /\ outcome' = "all_filtered" /\ UNCHANGED result
           ELSE IF sorted.raised
           THEN pc' = "exited" /\ outcome' = "crash" /\ UNCHANGED result
           ELSE pc' = "returned" /\ result' = sorted.list /\ UNCHANGED outcome
    /\ UNCHANGED <<prog, listing, published, today_fixtures, task, processed,
                   ordered_results, listing_requests, issued, response,
                   successful_requests, failed_requests, completed_tasks,
                   total_tasks>>

\* How the main function ends when writing the file raises: scraper.main
\* catches Exception and leaves with sys.exit(1), api.main does not catch.
WriteErrorOutcome == IF prog = "vrt" THEN "error" ELSE "crash"

\* open(path, 'w') truncates the file.
OpenFile ==
    /\ pc = "returned"
    /\ published' = Truncated
    /\ pc' = "writing"
    /\ UNCHANGED <<prog, listing, today_fixtures, task, processed,
                   ordered_results, result, outcome, listing_requests, issued,
                   response, successful_requests, failed_requests,
                   completed_tasks, total_tasks>>

\* open raises (no permission, no space): the file is as it was.
OpenFails ==
    /\ pc = "returned"
    /\ pc' = "exited"
    /\ outcome' = WriteErrorOutcome
    /\ UNCHANGED <<prog, listing, published, today_fixtures, task, processed,
                   ordered_results, result, listing_requests, issued,
                   response, successful_requests, failed_requests,
                   completed_tasks, total_tasks>>

\* json.dump writes the list and the file is closed.
DumpDone ==
    /\ pc = "writing"
    /\ published' = FileOf(result)
    /\ pc' = "exited"
    /\ outcome' = "success"
    /\ UNCHANGED <<prog, listing, today_fixtures, task, processed,
                   ordered_results, result, listing_requests, issued,
                   response, successful_requests, failed_requests,
                   completed_tasks, total_tasks>>

\* json.dump raises part-way: the file stays incomplete.
DumpFails ==
    /\ pc = "writing"
    /\ pc' = "exited"
    /\ outcome' = WriteErrorOutcome
    /\ UNCHANGED <<prog, listing, published, today_fixtures, task, processed,
                   ordered_results, result, listing_requests, issued,
                   response, successful_requests, failed_requests,
                   completed_tasks, total_tasks>>

Next ==
    \/ VrtListing
    \/ ApiListing
    \/ NoFixtures
    \/ SubmitAll
    \/ \E i \in 1..N : StartTask(i)
    \/ \E i \in 1..N : FinishFetch(i)
    \/ \E i \in 1..N : FinishNoUrl(i)
    \/ \E i \in 1..N : Collect(i)
    \/ VrtReturn
    \/ ApiAggregate
    \/ OpenFile
    \/ OpenFails
    \/ DumpDone
    \/ DumpFails

Spec == Init /\ [][Next]_vars

\* The runs termination is checked on: no earlier output file, and a
\* listing whose blocks are events of today, with a detail URL or without.
LiveBlocks ==
    { b \in ListingBlocks :
        b.link /\ b.date = Some(D_today) /\ b.href \in {None, Some(H_1)} }

LiveInit ==
    /\ Init
    /\ published = NoFile
    /\ listing.status # "non2xx"
    /\ \A k \in 1..Len(listing.body) : listing.body[k] \in LiveBlocks

\* The threads are scheduled by the operating system and every request
\* carries a timeout, so a step that can be taken is taken in the end.
LiveSpec == LiveInit /\ [][Next]_vars /\ WF_vars(Next)

\* ------------------------------------------------- the date filter alone
\* Listing blocks that differ in their date line only: none has an href,
\* so none gets an event_id and none is a duplicate of another.
\*   T1 "6 November at 20:00"    T2 "6 December at 20:00"
\*   T3 "7 November at 18:00"    T4 "6 November"
\*   T5 "7 November"             T6 "6 Nov at 20:00"
\*   T7 a text without a day number followed by letters
\*   T8 no evdesc span
DateBlock(title, date) ==
    MkBlock(TRUE, title, None, date, None, FALSE, None, FALSE)

DateBlocks ==
    { DateBlock("T1", Some(D_today)),
      DateBlock("T2", Some(MkDate("full", TodayDay, TodayMonth + 1, 20))),
      DateBlock("T3", Some(D_tomorrow)),
      DateBlock("T4", Some(D_plain)),
      DateBlock("T5", Some(MkDate("plain", TodayDay + 1, TodayMonth, 0))),
      DateBlock("T6", Some(MkDate("abbr", TodayDay, TodayMonth, 20))),
      DateBlock("T7", Some(MkDate("none", 0, 0, 0))),
      DateBlock("T8", None) }

\* The listing stage over the pages built from DateBlocks, fetched with
\* status 200.
DateInit ==
    /\ prog \in {"vrt", "api"}
    /\ listing \in { [status |-> "ok", body |-> page] :
                       page \in UNION { [1..n -> DateBlocks] : n \in 0..MaxBlocks } }
    /\ published = NoFile
    /\ Idle

DateNext ==
    \/ VrtListing
    \/ ApiListing

DateSpec == DateInit /\ [][DateNext]_vars

\* ------------------------------------------- the pool with failing tasks
\* The runs of LiveInit, in which a detail page may also be one the
\* parser refuses and a task may also raise.
PoolInit == LiveInit

PoolNext ==
    \/ Next
    \/ \E i \in 1..N : StartTaskMalformed(i)
    \/ \E i \in 1..N : TaskRaises(i)
    \/ \E i \in 1..N : CollectRaised(i)

PoolSpec == PoolInit /\ [][PoolNext]_vars

\* ------------------------------------------------- the sort of api.main
\* An href written as a full URL: the detail page of event 1.
H_1abs == [kind |-> "absolute", ref |-> 1, text |-> "https://livetv.sx/enx/eventinfo/1_a_b/"]

\* Listing blocks of today that differ in competition and time. Their
\* links are full URLs of the one detail page, so that api.py gives them
\* no event_id and keeps them all; the last one has no href.
\*   K - L  "6 November at 20:00", no competition
\*   M - N  "6 Nov at 20:00", no competition: parsed_datetime is None
\*   O - P  "6 November", no competition: parsed_datetime is absent
\*   Q - R  "6 November at 18:00", "(La Liga)"
SortBlocks ==
    { MkBlock(TRUE, "K - L", Some(H_1abs), Some(D_today), None, FALSE, None, FALSE),
      MkBlock(TRUE, "M - N", Some(H_1abs), Some(MkDate("abbr", TodayDay, TodayMonth, 20)), None, FALSE, None, FALSE),
      MkBlock(TRUE, "O - P", Some(H_1abs), Some(D_plain), None, FALSE, None, FALSE),
      MkBlock(TRUE, "Q - R", Some(H_1abs), Some(MkDate("full", TodayDay, TodayMonth, 18)),
              Some(<<"(", "L", "a", " ", "L", "i", "g", "a", ")">>), TRUE, None, FALSE),
      MkBlock(TRUE, "U - V", None, Some(D_today), None, FALSE, None, FALSE) }

SortInit ==
    /\ prog \in {"vrt", "api"}
    /\ listing \in { [status |-> "ok", body |-> page] :
                       page \in UNION { [1..n -> SortBlocks] : n \in 0..MaxBlocks } }
    /\ published = NoFile
    /\ Idle

SortSpec == SortInit /\ [][Next]_vars

\* ------------------------------------------------------------- properties
\* The fixtures as the listing stage produced them, before any enrichment.
ListedFixtures ==
    IF prog = "vrt" THEN VrtGetFixtures(listing) ELSE ApiGetFixtures(listing)

ListingFailed == listing.status # "ok"

HasUrl(i) == Has(today_fixtures[i], "event_url")

\* The enriching stage has been gone through and is over.
Enriched == N > 0 /\ pc \in {"returned", "writing", "exited"}

\* The positions process_all_fixtures_concurrent returned, in its order.
ReturnedPositions ==
    IF prog = "vrt" THEN processed
    ELSE LET keys == DOMAIN ordered_results
             Rank(i) == Cardinality({ j \in keys : j <= i })
         IN  [k \in 1..Cardinality(keys) |-> ordered_results[CHOOSE i \in keys : Rank(i) = k]]

Returned(i) == \E k \in 1..Len(ReturnedPositions) : ReturnedPositions[k] = i

\* The fixture at i is what process_fixture_concurrent makes of the
\* fixture as listed and of the response to its own request.
Merged(listed, i) ==
    today_fixtures[i] =
        IF prog = "vrt"
        THEN VrtProcessFixture(listed[i], response[i][1])
        ELSE ApiProcessFixture(listed[i], response[i][1])

FetchFailed(i) == response[i] # None /\ response[i][1].status = "exc"

\* Some thread can take a step on the task of fixture i.
CanStep(i) ==
    \/ NextQueued(i) /\ WorkerFree
    \/ task[i] = "running" /\ (HasUrl(i) => FetchReturns(response[i][1]))
    \/ task[i] = "done"

\* C1: whatever subset of the detail fetches fails and however the
\* workers interleave, the enriching stage never gets stuck, and when it
\* is over every candidate with a detail URL has had its request sent
\* once, its result merged into it and is among the results returned.
C1_FailureIsolation ==
    /\ pc = "enriching" => (AllCollected \/ \E i \in 1..N : CanStep(i))
    /\ Enriched =>
         LET listed == ListedFixtures
         IN  \A i \in 1..N :
                 HasUrl(i) => /\ issued[i] = 1
                              /\ response[i] # None
                              /\ Merged(listed, i)
                              /\ Returned(i)

\* A fetch failed, a sibling's fetch succeeded and its streams are merged
\* and returned.
C1_Witness ==
    /\ Enriched
    /\ \E i, j \in 1..N :
           /\ i # j
           /\ FetchFailed(i)
           /\ response[j] # None /\ response[j][1].status = "ok"
           /\ Get(today_fixtures[j], "streams", <<>>) # <<>>
           /\ Returned(j)

\* The records of the published result: the list scraper.main writes or
\* api.main saves.
PublishedResult == result

\* C2: a candidate with a detail URL whose enrichment failed is in the
\* published result, with empty team_logos and streams (a missing key
\* counted as empty).
C2_EnrichmentFailureKeepsRecord ==
    Enriched =>
        \A i \in 1..N :
            (HasUrl(i) /\ FetchFailed(i)) =>
                \E k \in 1..Len(PublishedResult) :
                    /\ PublishedResult[k] = today_fixtures[i]
                    /\ Get(PublishedResult[k], "team_logos", <<>>) = <<>>
                    /\ Get(PublishedResult[k], "streams", <<>>) = <<>>

\* C3: no two events of the list handed to the publisher carry the same
\* event_id.
C3_UniqueIds ==
    \A k, m \in 1..Len(result) :
        (k # m /\ Has(result[k], "event_id") /\ Has(result[m], "event_id"))
            => result[k]["event_id"] # result[m]["event_id"]

\* C4: in a run whose listing fetch failed (exception or error status) no
\* step changes the output file.
C4_ListingFailureKeepsSnapshot ==
    [][ListingFailed => published' = published]_vars

\* What the caller can tell a failed run by: scraper.main leaves with
\* exit status 1.
RunFailure == {"error"}

\* C5: a run ends as a failure exactly when its listing fetch failed, so
\* that a failed listing never looks like an empty day or a success.
C5_ListingFailureIsRunFailure ==
    pc = "exited" => (ListingFailed <=> outcome \in RunFailure)

\* C6: a run whose listing was fetched and holds nothing for today ends
\* with the empty list written over the output file.
C6_EmptyDayPublishesEmpty ==
    (pc = "exited" /\ ~ListingFailed /\ today_fixtures = <<>>)
        => published = FileOf(<<>>)

\* Every logo and stream entry of a fixture comes from the page of that
\* fixture's own event_url.
OwnPage(fixture) ==
    /\ \A k \in 1..Len(Get(fixture, "team_logos", <<>>)) :
           fixture["team_logos"][k].page = fixture["event_url"]
    /\ \A k \in 1..Len(Get(fixture, "streams", <<>>)) :
           fixture["streams"][k].page = fixture["event_url"]

IsPermutation(positions) ==
    /\ Len(positions) = N
    /\ \A i \in 1..N : \E k \in 1..N : positions[k] = i

C8_OrderIndependentOfCompletion ==
    (prog = "vrt" /\ pc = "returned") => processed = [k \in 1..N |-> k]

\* A fetch that timed out left its fixture as the listing stage made it.
TimeoutIsEmptyEnrichment ==
    (\E i \in DOMAIN task : FetchFailed(i)) =>
        LET listed == ListedFixtures
        IN  \A i \in DOMAIN task :
                (task[i] \in {"done", "collected"} /\ FetchFailed(i))
                    => today_fixtures[i] = listed[i]

\* C9: every run ends, and a fetch that timed out leaves its one
\* candidate without enrichment.
C9_RunTerminates ==
    /\ <>(pc = "exited")
    /\ [](TimeoutIsEmptyEnrichment)

\* Scenario B: one candidate, its fetch timed out, the run ended with
\* that one event written, without logos or streams.
C9_Witness ==
    /\ pc = "exited" /\ outcome = "success"
    /\ N = 1 /\ FetchFailed(1)
    /\ Len(published.data) = 1
    /\ ~Has(published.data[1], "streams")

\* C10: never more than max_workers tasks run at once, and each candidate
\* with a detail URL has its request sent exactly once by the end of the
\* enriching, a candidate without one never.
C10_BoundedPoolOneRequestEach ==
    /\ Cardinality({ i \in DOMAIN task : task[i] = "running" }) <= MaxWorkers
    /\ \A i \in DOMAIN issued : issued[i] <= 1
    /\ \A i \in DOMAIN issued :
           task[i] # "queued" => issued[i] = (IF HasUrl(i) THEN 1 ELSE 0)
    /\ Enriched => \A i \in 1..N : issued[i] = (IF HasUrl(i) THEN 1 ELSE 0)

\* The pool is full while a task still waits.
C10_Witness ==
    /\ pc = "enriching"
    /\ Cardinality(Running) = MaxWorkers
    /\ \E i \in 1..N : task[i] = "queued" /\ HasUrl(i)

\* ------------------------------------------------------------ stages
\* The stage of the run the main thread is in: the listing fetch with the
\* date filter (0), the candidate set at hand (1), the enriching (2), the
\* result returned to the main function (3), the write (4), the end (5).
StageRank(p) ==
    CASE p = "start"     -> 0
      [] p = "listed"    -> 1
      [] p = "enriching" -> 2
      [] p = "returned"  -> 3
      [] p = "writing"   -> 4
      [] p = "exited"    -> 5

\* C11: the stages of a run follow each other strictly forward (only the
\* steps of the workers stay within the enriching stage); a detail request
\* is sent only in the enriching stage, after the one listing request and
\* the date filter; the result is returned only when every task has
\* finished and been collected; the listing request is sent once and each
\* detail request at most once, failed or not.
C11_StagesInOrder ==
    /\ [][\/ StageRank(pc') > StageRank(pc)
          \/ pc' = pc /\ pc = "enriching"]_vars
    /\ [][listing_requests' # listing_requests
            => pc = "start" /\ listing_requests = 0]_vars
    /\ [][\A i \in DOMAIN issued :
            issued'[i] # issued[i] => pc = "enriching" /\ issued[i] = 0]_vars
    /\ [](pc # "start" => listing_requests = 1)
    /\ [](\A i \in DOMAIN issued : issued[i] > 0 => StageRank(pc) >= 2)
    /\ []((StageRank(pc) >= 3 /\ N > 0) => AllCollected)

\* A run went through every stage and ended with the file written, one
\* of its detail requests having failed and one having succeeded.
C11_Witness ==
    /\ pc = "exited" /\ outcome = "success"
    /\ listing_requests = 1
    /\ \E i, j \in 1..N :
           /\ FetchFailed(i) /\ issued[i] = 1
           /\ response[j] # None /\ response[j][1].status = "ok" /\ issued[j] = 1

\* _parse_broadcast_item of the pipeline that runs, on one block.
ParseBroadcastItem(block) ==
    IF prog = "vrt" THEN VrtParseBroadcastItem(block) ELSE ApiParseBroadcastItem(block)

\* The block was parsed into a record that carries a timestamp.
HasTimestamp(block) ==
    LET f == ParseBroadcastItem(block)
    IN  f # None /\ Get(f[1], "parsed_datetime", None) # None

\* The timestamp of the record of the block is of today's calendar date.
DatedToday(block) ==
    LET t == ParseBroadcastItem(block)[1]["parsed_datetime"]
    IN  t[1] = ThisYear /\ t[2] = TodayMonth /\ t[3] = TodayDay

\* The raw date text of the block holds today's day number followed by a
\* month token.
DayTokenInText(block) ==
    LET f == ParseBroadcastItem(block)
    IN  f # None /\ Has(f[1], "date_time")
        /\ f[1]["date_time"].fmt # "none" /\ f[1]["date_time"].day = TodayDay

\* The date filter kept the record of the block.
Retained(block) ==
    \E i \in 1..N : today_fixtures[i]["matchup"] = block.title

\* C12: of the records that carry a timestamp, the date filter keeps
\* those dated today and no other, whatever day number their text shows.
C12_TimestampDecidesDate ==
    pc = "listed" =>
        \A k \in 1..Len(listing.body) :
            HasTimestamp(listing.body[k])
                => (Retained(listing.body[k]) <=> DatedToday(listing.body[k]))

\* C13: a record without a timestamp is kept exactly when its date text
\* holds today's day number next to a month token, and every record kept
\* is either dated today by its timestamp or has no timestamp and such a
\* text.
C13_FallbackOnlyWithoutTimestamp ==
    pc = "listed" =>
        \A k \in 1..Len(listing.body) :
            LET b == listing.body[k]
            IN  /\ ~HasTimestamp(b) => (Retained(b) <=> DayTokenInText(b))
                /\ Retained(b) =>
                       \/ HasTimestamp(b) /\ DatedToday(b)
                       \/ ~HasTimestamp(b) /\ DayTokenInText(b)

\* The hrefs the listing pages of the model use.
Hrefs == {H_1, H_2, H_other}

\* C14: every candidate the listing stage keeps has an event_id, and it
\* is the number of its detail URL when that URL holds an event reference
\* (the id being a function of the block, two runs give the same one).
C14_EveryCandidateHasId ==
    \A i \in 1..N :
        /\ Has(today_fixtures[i], "event_id")
        /\ \A h \in Hrefs :
               (EventRefMatches(h) /\ Get(today_fixtures[i], "event_url", "") = UrlJoin(h))
                   => today_fixtures[i]["event_id"] = h.ref

\* The positions of the blocks of the listing page that are candidates of
\* today and carry the event id v.
TodayBlocksWithId(v) ==
    { k \in 1..Len(listing.body) :
        LET f == ParseBroadcastItem(listing.body[k])
        IN  /\ f # None
            /\ IF prog = "vrt" THEN VrtIsToday(f[1]) ELSE ApiIsToday(f[1])
            /\ Get(f[1], "event_id", 0) = v }

\* C15: when the page holds several candidates of today with the same id,
\* the list of the listing stage holds exactly one fixture with that id,
\* and it is the one of the first such block of the page.
C15_FirstSeenKept ==
    (pc = "listed" /\ listing.status = "ok") =>
        \A h \in Hrefs :
            LET ks == TodayBlocksWithId(h.ref)
                first == CHOOSE k \in ks : \A m \in ks : k <= m
                kept == { i \in 1..N : Get(today_fixtures[i], "event_id", 0) = h.ref }
            IN  (EventRefMatches(h) /\ ks # {}) =>
                    /\ Cardinality(kept) = 1
                    /\ \A i \in kept :
                           /\ today_fixtures[i]["matchup"] = listing.body[first].title
                           /\ Cardinality({ j \in 1..(i - 1) : ~Has(today_fixtures[j], "event_id") })
                                  = Cardinality({ k \in 1..(first - 1) :
                                        LET f == ParseBroadcastItem(listing.body[k])
                                        IN  /\ f # None
                                            /\ IF prog = "vrt" THEN VrtIsToday(f[1]) ELSE ApiIsToday(f[1])
                                            /\ ~Has(f[1], "event_id") })

\* C16: for a candidate without event_url no detail request is ever sent,
\* and when the enriching is over the candidate is in the published
\* result with empty team_logos and streams (a missing key counted as
\* empty).
C16_NoUrlNoFetch ==
    /\ \A i \in DOMAIN issued :
           ~HasUrl(i) => issued[i] = 0 /\ response[i] = None
    /\ Enriched =>
           \A i \in 1..N :
               ~HasUrl(i) =>
                   \E k \in 1..Len(PublishedResult) :
                       /\ PublishedResult[k] = today_fixtures[i]
                       /\ Get(PublishedResult[k], "team_logos", <<>>) = <<>>
                       /\ Get(PublishedResult[k], "streams", <<>>) = <<>>

\* The fields of a fixture other than the two the enrichment adds.
ListingFields(fixture) == DelKey(DelKey(fixture, "team_logos"), "streams")

\* C17: at every moment the fields of every fixture other than team_logos
\* and streams are the ones the listing stage parsed, whatever the detail
\* request came back with, and every record of the result is such a
\* fixture.
C17_EnrichmentFrame ==
    (DOMAIN task # {}) =>
        LET listed == ListedFixtures
        IN  /\ \A i \in DOMAIN task :
                   /\ ListingFields(today_fixtures[i]) = listed[i]
                   /\ ~Has(listed[i], "team_logos") /\ ~Has(listed[i], "streams")
            /\ \A k \in 1..Len(result) :
                   \E i \in 1..N : ListingFields(result[k]) = listed[i]

\* A live event of the listing was written with the logos and streams of
\* its detail page, the listing fields still on it.
C17_Witness ==
    /\ pc = "exited" /\ outcome = "success"
    /\ \E k \in 1..Len(published.data) :
           /\ Get(published.data[k], "streams", <<>>) # <<>>
           /\ Len(Get(published.data[k], "team_logos", <<>>)) = 2
           /\ published.data[k]["is_live"]
           /\ published.data[k]["matchup"] = "A - B"
           /\ Has(published.data[k], "competition")

\* C18: at every moment index.json, as a reader finds it, is the complete
\* snapshot it held before the run or the complete new one, and when the
\* write failed it is the one it held before.
C18_AtomicPublication ==
    prog = "vrt" =>
        /\ published.complete
        /\ published \in {NoFile, FileOf(OldSnapshot), FileOf(result)}
        /\ outcome = "error" => published \in {NoFile, FileOf(OldSnapshot)}

\* C19: when api.process_all_fixtures_concurrent has collected every
\* future, the list it returns has the length of its input and holds at
\* each position the fixture of that position, as listed or with the
\* lists of its own detail page merged, whatever order the tasks finished
\* in and whichever of them failed or raised.
C19_ApiKeepsLengthAndOrder ==
    (prog = "api" /\ pc = "enriching" /\ AllCollected) =>
        LET listed == ListedFixtures
        IN  /\ Len(ApiProcessedFixtures) = Len(listed)
            /\ ReturnedPositions = [k \in 1..N |-> k]
            /\ \A i \in 1..N :
                   /\ ApiProcessedFixtures[i]["matchup"] = listed[i]["matchup"]
                   /\ ApiProcessedFixtures[i] =
                          IF HasUrl(i) THEN ApiProcessFixture(listed[i], response[i][1])
                          ELSE listed[i]

\* Two fixtures, the task of one of them raised, and every future has
\* been collected.
C19_Witness ==
    /\ prog = "api" /\ pc = "enriching" /\ AllCollected
    /\ N = 2
    /\ completed_tasks > Cardinality({ i \in 1..N : HasUrl(i) })
    /\ Len(ApiProcessedFixtures) = 2

\* The list api.main hands to sort_by_league_priority.
SortInput == filter_by_logo_presence(ApiProcessedFixtures)

\* C20: when api.main comes to sort, sort_by_league_priority does not
\* raise and returns the fixtures it was given, each once, with no
\* fixture before one of a smaller (priority, start time) key.
C20_SortNeverRaises ==
    (prog = "api" /\ pc = "enriching" /\ AllCollected) =>
        LET sorted == sort_by_league_priority(SortInput)
            n == Len(SortInput)
        IN  /\ ~sorted.raised
            /\ Len(sorted.list) = n
            /\ \A f \in { SortInput[k] : k \in 1..n } :
                   Cardinality({ k \in 1..n : sorted.list[k] = f })
                       = Cardinality({ k \in 1..n : SortInput[k] = f })
            /\ \A k, m \in 1..n :
                   k < m => KeyLess(SortKey(sorted.list[m]), SortKey(sorted.list[k])) = 0

\* The name is, but for the case of its letters, one of KJ_ORDER.
IsListedLeague(name) ==
    \E k \in 1..Len(KJ_ORDER) : KjLeague(k) = ToLower(name)

\* The competition name sort_key passes to get_league_priority.
CompetitionOf(fixture) == Get(fixture, "competition", <<>>)

\* C21: for every fixture api.main comes to sort, get_league_priority
\* gives DEFAULT_PRIORITY to its competition name unless that name is one
\* of KJ_ORDER, the empty name of a fixture without competition included.
C21_UnlistedGetsDefault ==
    (prog = "api" /\ pc = "enriching" /\ AllCollected) =>
        \A k \in 1..Len(SortInput) :
            LET name == CompetitionOf(SortInput[k])
            IN  /\ ~IsListedLeague(name) => get_league_priority(name) = DEFAULT_PRIORITY
                /\ get_league_priority(name) < DEFAULT_PRIORITY => IsListedLeague(name)

\* The body of the listing response went through the page parse.
BodyParsed == IF prog = "vrt" THEN listing.status # "exc" ELSE listing.status = "ok"

\* The block gives a record that passes the date test of the pipeline.
IsTodayBlock(block) ==
    LET f == ParseBroadcastItem(block)
    IN  f # None /\ (IF prog = "vrt" THEN VrtIsToday(f[1]) ELSE ApiIsToday(f[1]))

\* The listing response with the blocks that have no primary link taken
\* off the page.
WithoutBadBlocks ==
    [listing EXCEPT !.body = SelectSeq(listing.body, LAMBDA b : b.link)]

\* C22: a block without primary link gives no record, and the page parse
\* goes on past it: the list of the listing stage is the one the page
\* gives without such blocks, and every block of today on the page has
\* its record in it.
C22_BadBlockSkipped ==
    (pc = "listed" /\ BodyParsed) =>
        /\ \A k \in 1..Len(listing.body) :
               /\ ~listing.body[k].link => ParseBroadcastItem(listing.body[k]) = None
               /\ IsTodayBlock(listing.body[k]) => Retained(listing.body[k])
        /\ today_fixtures =
               IF prog = "vrt" THEN VrtGetFixtures(WithoutBadBlocks)
               ELSE ApiGetFixtures(WithoutBadBlocks)

\* A page whose first block has no primary link and whose last block is
\* an event of today, kept by the listing stage.
C22_Witness ==
    /\ pc = "listed" /\ BodyParsed
    /\ Len(listing.body) = 3
    /\ ~listing.body[1].link
    /\ IsTodayBlock(listing.body[3])
    /\ N >= 1 /\ today_fixtures[N]["matchup"] = listing.body[3].title

\* The step is one of the worker that runs the task of fixture i.
WorkerStepOf(i) ==
    \/ task[i] = "queued" /\ task' = [task EXCEPT ![i] = "running"]
    \/ task[i] = "running" /\ task' = [task EXCEPT ![i] = "done"]
    \/ task[i] = "running" /\ task' = [task EXCEPT ![i] = "raised"]

\* The step is the main thread taking the finished future of fixture i.
CollectorStepOf(i) ==
    task[i] \in {"done", "raised"} /\ task' = [task EXCEPT ![i] = "collected"]

\* C23: in the enriching stage every step that writes the collection of
\* results is a step of the main thread taking one finished future, and
\* writes no fixture; every step that writes a fixture is the step of the
\* one worker that runs its task, writes no other fixture and neither the
\* collection nor anything but the counters; once its task is finished a
\* fixture is written no more.
C23_SingleWriter ==
    [][(pc = "enriching" /\ pc' = "enriching") =>
          /\ (processed' # processed \/ ordered_results' # ordered_results) =>
                 /\ \E i \in 1..N : CollectorStepOf(i)
                 /\ today_fixtures' = today_fixtures
                 /\ UNCHANGED <<successful_requests, failed_requests, completed_tasks>>
          /\ \A i \in 1..N :
                 today_fixtures'[i] # today_fixtures[i] =>
                     /\ task[i] = "running" /\ WorkerStepOf(i)
                     /\ \A j \in 1..N : j # i => today_fixtures'[j] = today_fixtures[j]
                     /\ UNCHANGED <<processed, ordered_results, result, published>>
          /\ \A i \in 1..N :
                 WorkerStepOf(i) =>
                     UNCHANGED <<processed, ordered_results, result, published,
                                 listing, total_tasks>>
      ]_vars

\* Two workers are in their tasks while the main thread has already
\* taken the result of a third, whose fixture carries its logos.
C23_Witness ==
    /\ pc = "enriching"
    /\ Cardinality(Running) = 2
    /\ \E i \in 1..N :
           /\ task[i] = "collected"
           /\ Get(today_fixtures[i], "team_logos", <<>>) # <<>>
           /\ Returned(i)

\* The fixtures whose task has come to its end.
Finished == { i \in DOMAIN task : task[i] \in {"done", "raised", "collected"} }

\* C24: in api.py, at every moment, successful_requests and
\* failed_requests together count each request that has been answered
\* once: the listing request and the detail request of every fixture with
\* an event_url whose task has ended; so no request is counted twice and,
\* when the run is over, their sum is the number of requests sent.
C24_EachRequestCountedOnce ==
    prog = "api" =>
        /\ successful_requests + failed_requests
               = listing_requests + Cardinality({ i \in Finished : HasUrl(i) })
        /\ (pc = "enriching" /\ AllCollected) =>
               successful_requests + failed_requests
                   = listing_requests + Cardinality({ i \in 1..N : issued[i] = 1 })

\* C25: in api.py, at every moment, 0 <= completed_tasks <= total_tasks,
\* completed_tasks counts no fixture more than once (it is at most the
\* number of tasks that have ended), and it equals total_tasks when every
\* future has been collected and process_all_fixtures_concurrent returns.
C25_ProgressCounter ==
    prog = "api" =>
        /\ 0 <= completed_tasks /\ completed_tasks <= total_tasks
        /\ completed_tasks <= Cardinality(Finished)
        /\ (pc = "enriching" /\ AllCollected) => completed_tasks = total_tasks

====
